---- MODULE Spec2Model ----
(***************************************************************************)
(* A model of verify_ehc.py: the trust-list loaders and their merge        *)
(* (download_ehc_certs), the transport decoder (decode_ehc), the key       *)
(* resolver and verifier (verify_ehc) and the batch loop of main.          *)
(*                                                                         *)
(* Byte strings are sequences of integers 0..255, texts are sequences of   *)
(* one-character strings, a Python dict is a function on its key set.      *)
(* A certificate is identified by an integer standing for its DER bytes;   *)
(* everything cryptography reads off a certificate is a function of it.    *)
(*                                                                         *)
(* Trust-list documents are well formed (they parse as CBOR or as a        *)
(* signature line and a JSON body, and their certificates as DER); their   *)
(* entries are drawn one loop iteration at a time.  The libraries (SHA-256,*)
(* ECDSA, zlib, cose) are modelled by what a caller can observe of them.   *)
(***************************************************************************)
EXTENDS Integers, Sequences, FiniteSets, TLC

\* ------------------------------------------------------------------ bounds
NumCerts   == 4   \* certificates (DER documents) in the universe
MaxEntries == 2   \* entries iterated in one trust-list document
MaxSources == 2   \* length of the --certs-from list
MaxNow     == 3   \* clock values 0..MaxNow
MaxCodes   == 2   \* length of the ehc_code list
MaxTextLen == 4   \* length of a text handed to decode_ehc

\* ------------------------------------------------------- program constants
KID_LEN == 8      \* fingerprint[0:8]
FP_LEN  == 32     \* a SHA-256 digest

VARIABLES
    pc,          \* position of the run
    error,       \* the exception that ended the run, "none" while running
    \* main
    mode,        \* "no_verify" | "file" | "download" (args)
    sources,     \* the list handed to download_ehc_certs
    certs,       \* main's certs (meaningful when ~certs_none)
    certs_none,  \* main's certs is None
    \* download_ehc_certs
    si,          \* index into sources of the iteration under way (1-based)
    dl_certs,    \* download_ehc_certs's local certs
    loaded,      \* history: the store each completed source returned, in order
    \* load_ehc_certs_cbor / load_ehc_certs_signed_json
    ld_certs,    \* the loader's local certs
    ld_n,        \* history: entries of the document iterated so far
    ld_bad,      \* history: an iterated entry that reached the fingerprint
                 \* check (any CBOR entry, a JSON entry of type DSC) declared
                 \* a key id that is not its certificate's fingerprint prefix
    ld_pubkey,   \* the pubkey argument of load_ehc_certs_signed_json
    ld_sign,     \* the key that made the document's outer signature
    \* verify_ehc
    v_msg,       \* the msg argument of the last call
    v_now,       \* datetime.now() in the last call
    v_out,       \* what the last call computed and how it ended
    \* the batch loop of main
    n_codes,     \* len(ehc_codes)
    log,         \* history: per input processed, what main produced for it
    \* decode_ehc
    d_text,      \* a text s
    d_out        \* the outcomes of decode_ehc on s, 'HC1' + s and 'HC1:' + s

loadVars == <<mode, sources, certs, certs_none, si, dl_certs, loaded,
              ld_certs, ld_n, ld_bad, ld_pubkey, ld_sign>>
verifyVars == <<v_msg, v_now, v_out>>
batchVars == <<n_codes, log>>
decodeVars == <<d_text, d_out>>
vars == <<pc, error, loadVars, verifyVars, batchVars, decodeVars>>

\* --------------------------------------------------------------- universe
Certs == 1..NumCerts

Empty == <<>>     \* {} : the empty dict

\* cert.fingerprint(hashes.SHA256()): a digest of FP_LEN bytes.  The digest
\* is a stand-in for SHA-256 in which two certificates can share their
\* first KID_LEN bytes, as two DER documents can.
Fingerprint(cert) ==
    [i \in 1..FP_LEN |->
        IF i <= KID_LEN THEN ((cert % 2) * 16 + i) % 256
                        ELSE (cert * 7 + i) % 256]

\* The key ids a trust-list document may declare.
KeyIds == {SubSeq(Fingerprint(c), 1, KID_LEN) : c \in Certs}

NoKey   == "None"
SigKeys == {"RKI", "other"}         \* keys that can sign a DE trust list
CertTypes == {"DSC", "CSCA"}        \* certificateType values
SourceNames == {"AT", "DE", "XX"}

\* ---------------------------------------------------------------- helpers
\* faulty variants of the check below: left out, and inverted
KeyIdMismatchNoCheck(key_id, cert) == FALSE
KeyIdMismatchInverted(key_id, cert) ==
    key_id = SubSeq(Fingerprint(cert), 1, KID_LEN)
\* key_id != fingerprint[0:8]
KeyIdMismatch(key_id, cert) ==
    key_id # SubSeq(Fingerprint(cert), 1, KID_LEN)

\* certs[key_id] = cert
DictSet(d, key_id, cert) ==
    [k \in (DOMAIN d) \cup {key_id} |-> IF k = key_id THEN cert ELSE d[k]]

\* faulty variant of the merge below: the earlier entry is kept
DictUpdateKeepFirst(d, other) ==
    [k \in (DOMAIN d) \cup (DOMAIN other) |->
        IF k \in DOMAIN d THEN d[k] ELSE other[k]]
\* certs.update(other)
DictUpdate(d, other) ==
    [k \in (DOMAIN d) \cup (DOMAIN other) |->
        IF k \in DOMAIN other THEN other[k] ELSE d[k]]

\* faulty variant of the verification below: it never fails
PubkeyVerifyAlways(pubkey, sign) == TRUE
\* pubkey.verify(sign_dds, body_json, ECDSA(SHA256)) does not raise
PubkeyVerify(pubkey, sign) == sign = pubkey

RECURSIVE SeqsUpTo(_, _)
SeqsUpTo(S, n) ==
    IF n = 0 THEN {<<>>}
    ELSE LET shorter == SeqsUpTo(S, n - 1)
         IN  shorter \cup {Append(s, x) : s \in shorter, x \in S}

\* the stores load_ehc_certs and download_ehc_certs can return
TrustStores ==
    {d \in UNION {[K -> Certs] : K \in SUBSET KeyIds} :
        \A k \in DOMAIN d : k = SubSeq(Fingerprint(d[k]), 1, KID_LEN)}

\* ------------------------------------------------- certificates' contents
\* type(cert.public_key())
PublicKeyType(cert) ==
    CASE cert % 4 = 1 -> "EllipticCurvePublicKey"
      [] cert % 4 = 2 -> "RSAPublicKey"
      [] cert % 4 = 3 -> "EllipticCurvePublicKey"
      [] OTHER        -> "DSAPublicKey"

\* pk.curve.name of an EC key
CurveName(cert) == IF cert % 4 = 1 THEN "secp256r1" ELSE "brainpoolP256r1"

\* cert.not_valid_before, cert.not_valid_after
NotValidBefore(cert) == 1
NotValidAfter(cert) == 1 + ((cert \div 2) % 2)

Times == 0..MaxNow

\* CURVES after the module's start-up loop over cose.keys.curves
CURVES == {"secp256r1", "prime256v1", "secp384r1", "secp521r1",
           "p256", "p384", "p521", "secp256k1",
           "x25519", "x448", "ed25519", "ed448"}

\* CURVE_NAME_IGNORE.sub('', name).lower(), on the names certificates carry
NormalizeCurveName(name) ==
    CASE name = "brainpoolP256r1" -> "brainpoolp256r1"
      [] OTHER                    -> name

\* ---------------------------------------------------------------- messages
\* a header: the KID attribute may be missing; its value is a byte string
NoKid == [has |-> FALSE, kid |-> <<>>]
Headers == {NoKid} \cup {[has |-> TRUE, kid |-> k] : k \in KeyIds \cup {<<>>}}

\* payload: with or without the health claims (key -260)
Payloads == {"claims", "no_health_claims"}

\* a CoseMessage: its headers, the certificate whose key signed it (0: no
\* key of the universe) and its payload
Msgs == [phdr : Headers, uhdr : Headers, signer : 0..NumCerts,
         payload : Payloads]

NoMsg == [phdr |-> NoKid, uhdr |-> NoKid, signer |-> 0, payload |-> "claims"]

\* ---------------------------------------------------------------- decode_ehc
HC1 == <<"H", "C", "1">>

\* the base-45 alphabet
BASE45_CHARSET ==
    <<"0", "1", "2", "3", "4", "5", "6", "7", "8", "9",
      "A", "B", "C", "D", "E", "F", "G", "H", "I", "J",
      "K", "L", "M", "N", "O", "P", "Q", "R", "S", "T",
      "U", "V", "W", "X", "Y", "Z", " ", "$", "%", "*",
      "+", "-", ".", "/", ":">>

\* the characters texts are drawn from: "a" is outside the alphabet
TextAlphabet == {"H", "C", "1", ":", "6", "B", "F", "a"}

StartsWith(s, p) == Len(s) >= Len(p) /\ SubSeq(s, 1, Len(p)) = p

\* faulty variant of the stripping below: only the whole 'HC1:' is stripped
StripPrefixWithColonOnly(t) ==
    IF StartsWith(t, HC1 \o <<":">>) THEN SubSeq(t, 5, Len(t)) ELSE t
\* if b45_data.startswith('HC1'): strip it, then one ':' if one follows
StripPrefix(t) ==
    IF StartsWith(t, HC1)
    THEN LET r == SubSeq(t, 4, Len(t))
         IN  IF StartsWith(r, <<":">>) THEN SubSeq(r, 2, Len(r)) ELSE r
    ELSE t

InCharset(c) == \E i \in 1..Len(BASE45_CHARSET) : BASE45_CHARSET[i] = c
B45Value(c) == (CHOOSE i \in 1..Len(BASE45_CHARSET) : BASE45_CHARSET[i] = c) - 1

\* the bytes of the groups of buf from position i on; <<-1>> marks an
\* overflowing group (a ValueError)
RECURSIVE B45Groups(_, _)
B45Groups(buf, i) ==
    IF i > Len(buf) THEN <<>>
    ELSE IF Len(buf) - i + 1 >= 3
    THEN LET x == buf[i] + buf[i + 1] * 45 + buf[i + 2] * 45 * 45
         IN  IF x > 65535 THEN <<-1>>
             ELSE <<x \div 256, x % 256>> \o B45Groups(buf, i + 3)
    ELSE LET x == buf[i] + buf[i + 1] * 45
         IN  IF x > 255 THEN <<-1>> ELSE <<x>>

\* b45decode(s): ok is FALSE when it raises ValueError
b45decode(t) ==
    IF \E i \in 1..Len(t) : ~InCharset(t[i])
    THEN [ok |-> FALSE, data |-> <<>>]
    ELSE IF Len(t) % 3 = 1
    THEN [ok |-> FALSE, data |-> <<>>]
    ELSE LET buf == [i \in 1..Len(t) |-> B45Value(t[i])]
             res == B45Groups(buf, 1)
         IN  IF \E i \in 1..Len(res) : res[i] = -1
             THEN [ok |-> FALSE, data |-> <<>>]
             ELSE [ok |-> TRUE, data |-> res]

\* decode_ehc(b45_data) up to the calls into zlib and cose: either it raises
\* ValueError, or its outcome (a message or an error) is that of
\* CoseMessage.decode(zlib.decompress(data)) when inflate, and that of
\* CoseMessage.decode(data) otherwise
decode_ehc(b45_data) ==
    LET b == b45decode(StripPrefix(b45_data))
    IN  IF ~b.ok
        THEN [raised |-> "ValueError", inflate |-> FALSE, data |-> <<>>]
        ELSE [raised |-> "none",
              inflate |-> StartsWith(b.data, <<120>>),
              data |-> b.data]

NoOutcome == [raised |-> "none", inflate |-> FALSE, data |-> <<>>]

\* ---------------------------------------------------------------- verify_ehc
\* msg.phdr.get(KID) or msg.uhdr[KID] raises KeyError
GivenKidMissing(msg) ==
    /\ ~(msg.phdr.has /\ msg.phdr.kid # <<>>)
    /\ ~msg.uhdr.has

\* msg.phdr.get(KID) or msg.uhdr[KID]
GivenKid(msg) ==
    IF msg.phdr.has /\ msg.phdr.kid # <<>> THEN msg.phdr.kid
    ELSE msg.uhdr.kid

\* now < cert.not_valid_before and now > cert.not_valid_after
CertExpired(cert, now) ==
    now < NotValidBefore(cert) /\ now > NotValidAfter(cert)

\* the key built from the certificate is unusable: the error raised, or "none"
KeyError(cert) ==
    CASE PublicKeyType(cert) = "EllipticCurvePublicKey" ->
            IF NormalizeCurveName(CurveName(cert)) \in CURVES
            THEN "none" ELSE "UnsupportedCurve"
      [] PublicKeyType(cert) = "RSAPublicKey" -> "none"
      [] OTHER -> "UnsupportedKeyType"

\* msg.verify_signature() with msg.key built from the certificate
VerifySignature(msg, cert) == msg.signer = cert

NoVerify ==
    [raised |-> "none", given_kid |-> <<>>, looked_up |-> FALSE, cert |-> 0,
     cert_expired |-> FALSE, sig_checked |-> FALSE, valid |-> FALSE,
     result |-> FALSE]

\* verify_ehc(msg, certs) at time now: how it ends (raised) and what it
\* computed on the way
verify_ehc(msg, store, now) ==
    IF GivenKidMissing(msg)
    THEN [NoVerify EXCEPT !.raised = "MissingKeyId"]
    ELSE LET given_kid == GivenKid(msg) IN
    IF given_kid \notin DOMAIN store
    THEN [NoVerify EXCEPT !.raised = "UnknownKeyId", !.given_kid = given_kid,
                          !.looked_up = TRUE]
    ELSE LET cert == store[given_kid]
             cert_expired == CertExpired(cert, now)
             found == [NoVerify EXCEPT !.given_kid = given_kid,
                                       !.looked_up = TRUE, !.cert = cert,
                                       !.cert_expired = cert_expired]
         IN
    IF KeyError(cert) # "none"
    THEN [found EXCEPT !.raised = KeyError(cert)]
    ELSE LET valid == VerifySignature(msg, cert)
         IN  [found EXCEPT !.sig_checked = TRUE, !.valid = valid,
                           !.result = (valid /\ ~cert_expired)]

\* ------------------------------------------------------------- idle values
otherVars == <<verifyVars, batchVars, decodeVars>>

IdleVerify == v_msg = NoMsg /\ v_now = 0 /\ v_out = NoVerify
IdleBatch == n_codes = 0 /\ log = <<>>
IdleDecode ==
    /\ d_text = <<>>
    /\ d_out = [plain |-> NoOutcome, hc1 |-> NoOutcome, hc1colon |-> NoOutcome]
IdleLoad ==
    /\ mode = "none"
    /\ sources = <<>>
    /\ si = 0
    /\ dl_certs = Empty
    /\ loaded = <<>>
    /\ ld_certs = Empty
    /\ ld_n = 0
    /\ ld_bad = FALSE
    /\ ld_pubkey = NoKey
    /\ ld_sign = "RKI"

\* ------------------------------------------------------------------- main
InitLoad ==
    /\ pc = "main"
    /\ error = "none"
    /\ mode \in {"no_verify", "file", "download"}
    /\ sources \in IF mode = "download"
                   THEN SeqsUpTo(SourceNames, MaxSources) \ {<<>>}
                   ELSE {<<>>}
    /\ certs = Empty
    /\ certs_none = TRUE
    /\ si = 0
    /\ dl_certs = Empty
    /\ loaded = <<>>
    /\ ld_certs = Empty
    /\ ld_n = 0
    /\ ld_bad = FALSE
    /\ ld_pubkey = NoKey
    /\ ld_sign = "RKI"
    /\ IdleVerify
    /\ IdleBatch
    /\ IdleDecode

\* the exception propagates out of main: nothing is returned or assigned
Raise(e) ==
    /\ pc' = "crashed"
    /\ error' = e

\* --no-verify: certs stays None
MainNoVerify ==
    /\ pc = "main"
    /\ mode = "no_verify"
    /\ pc' = "loaded"
    /\ UNCHANGED <<error, loadVars, otherVars>>

\* certs = load_ehc_certs(args.certs_file): enters load_ehc_certs_cbor
MainCertsFile ==
    /\ pc = "main"
    /\ mode = "file"
    /\ pc' = "cbor_loop"
    /\ ld_certs' = Empty
    /\ ld_n' = 0
    /\ ld_bad' = FALSE
    /\ UNCHANGED <<error, mode, sources, certs, certs_none, si, dl_certs,
                   loaded, ld_pubkey, ld_sign, otherVars>>

\* certs = download_ehc_certs([...]): enters the function, certs = {}
MainDownload ==
    /\ pc = "main"
    /\ mode = "download"
    /\ pc' = "download"
    /\ si' = 1
    /\ dl_certs' = Empty
    /\ loaded' = <<>>
    /\ UNCHANGED <<error, mode, sources, certs, certs_none,
                   ld_certs, ld_n, ld_bad, ld_pubkey, ld_sign, otherVars>>

\* ------------------------------------------------------ download_ehc_certs
\* source == 'AT': fetch, then enter load_ehc_certs_cbor
DownloadAT ==
    /\ pc = "download"
    /\ si <= Len(sources)
    /\ sources[si] = "AT"
    /\ pc' = "cbor_loop"
    /\ ld_certs' = Empty
    /\ ld_n' = 0
    /\ ld_bad' = FALSE
    /\ UNCHANGED <<error, mode, sources, certs, certs_none, si, dl_certs,
                   loaded, ld_pubkey, ld_sign, otherVars>>

\* source == 'DE': fetch the list and the pubkey (None on 404 or when it is
\* no EC key), then load_ehc_certs_signed_json up to its signature check
DownloadDE ==
    /\ pc = "download"
    /\ si <= Len(sources)
    /\ sources[si] = "DE"
    /\ \E pubkey \in SigKeys \cup {NoKey}, sign \in SigKeys :
        /\ ld_pubkey' = pubkey
        /\ ld_sign' = sign
        /\ ld_certs' = Empty
        /\ ld_n' = 0
        /\ ld_bad' = FALSE
        /\ IF pubkey # NoKey /\ ~PubkeyVerify(pubkey, sign)
           THEN Raise("SignatureInvalid")
           ELSE pc' = "json_loop" /\ error' = error
    /\ UNCHANGED <<mode, sources, certs, certs_none, si, dl_certs, loaded,
                   otherVars>>

\* response.raise_for_status() raises
DownloadHTTPError ==
    /\ pc = "download"
    /\ si <= Len(sources)
    /\ sources[si] \in {"AT", "DE"}
    /\ Raise("HTTPError")
    /\ UNCHANGED <<loadVars, otherVars>>

\* else: raise ValueError('Unknown trust list source')
DownloadUnknownSource ==
    /\ pc = "download"
    /\ si <= Len(sources)
    /\ sources[si] \notin {"AT", "DE"}
    /\ Raise("UnknownSource")
    /\ UNCHANGED <<loadVars, otherVars>>

\* return certs, assigned to main's certs
DownloadReturn ==
    /\ pc = "download"
    /\ si > Len(sources)
    /\ certs' = dl_certs
    /\ certs_none' = FALSE
    /\ pc' = "loaded"
    /\ UNCHANGED <<error, mode, sources, si, dl_certs, loaded,
                   ld_certs, ld_n, ld_bad, ld_pubkey, ld_sign, otherVars>>

\* ----------------------------------------------------- load_ehc_certs_cbor
\* one iteration of `for item in certs_data['c']`
CborItem ==
    /\ pc = "cbor_loop"
    /\ ld_n < MaxEntries
    /\ \E key_id \in KeyIds, cert \in Certs :
        /\ ld_n' = ld_n + 1
        /\ ld_bad' = (ld_bad \/ key_id # SubSeq(Fingerprint(cert), 1, KID_LEN))
        /\ IF KeyIdMismatch(key_id, cert)
           THEN /\ Raise("KeyIdMismatch")
                /\ ld_certs' = ld_certs
           ELSE /\ ld_certs' = DictSet(ld_certs, key_id, cert)
                /\ pc' = pc
                /\ error' = error
    /\ UNCHANGED <<mode, sources, certs, certs_none, si, dl_certs, loaded,
                   ld_pubkey, ld_sign, otherVars>>

\* the caller's use of a loader's return value: main assigns it to certs,
\* download_ehc_certs merges it with certs.update and goes to the next source.
\* The loader's frame is gone: its locals are back to their idle values.
LoaderReturn ==
    /\ IF mode = "file"
       THEN /\ certs' = ld_certs
            /\ certs_none' = FALSE
            /\ pc' = "loaded"
            /\ UNCHANGED <<si, dl_certs, loaded>>
       ELSE /\ dl_certs' = DictUpdate(dl_certs, ld_certs)
            /\ loaded' = Append(loaded, ld_certs)
            /\ si' = si + 1
            /\ pc' = "download"
            /\ UNCHANGED <<certs, certs_none>>
    /\ ld_certs' = Empty
    /\ ld_n' = 0
    /\ ld_bad' = FALSE
    /\ ld_pubkey' = NoKey
    /\ ld_sign' = "RKI"

\* the list is exhausted: return certs
CborReturn ==
    /\ pc = "cbor_loop"
    /\ LoaderReturn
    /\ UNCHANGED <<error, mode, sources, otherVars>>

\* ---------------------------------------------- load_ehc_certs_signed_json
\* one iteration of `for cert in body['certificates']`
JsonItem ==
    /\ pc = "json_loop"
    /\ ld_n < MaxEntries
    /\ \E key_id \in KeyIds, cert_type \in CertTypes, cert \in Certs :
        /\ ld_n' = ld_n + 1
        /\ IF cert_type # "DSC"
           THEN /\ UNCHANGED <<pc, error, ld_certs, ld_bad>>
           ELSE /\ ld_bad' = (ld_bad \/
                        key_id # SubSeq(Fingerprint(cert), 1, KID_LEN))
                /\ IF KeyIdMismatch(key_id, cert)
                   THEN /\ Raise("KeyIdMismatch")
                        /\ ld_certs' = ld_certs
                   ELSE /\ ld_certs' = DictSet(ld_certs, key_id, cert)
                        /\ pc' = pc
                        /\ error' = error
    /\ UNCHANGED <<mode, sources, certs, certs_none, si, dl_certs, loaded,
                   ld_pubkey, ld_sign, otherVars>>

JsonReturn ==
    /\ pc = "json_loop"
    /\ LoaderReturn
    /\ UNCHANGED <<error, mode, sources, otherVars>>

NextLoad ==
    \/ MainNoVerify
    \/ MainCertsFile
    \/ MainDownload
    \/ DownloadAT
    \/ DownloadDE
    \/ DownloadHTTPError
    \/ DownloadUnknownSource
    \/ DownloadReturn
    \/ CborItem
    \/ CborReturn
    \/ JsonItem
    \/ JsonReturn

SpecLoad == InitLoad /\ [][NextLoad]_vars

\* ---------------------------------------------------------------- verify_ehc
\* one call of verify_ehc on a store the loaders can return
InitVerify ==
    /\ pc = "verify"
    /\ error = "none"
    /\ certs \in TrustStores
    /\ certs_none = FALSE
    /\ IdleLoad
    /\ IdleVerify
    /\ IdleBatch
    /\ IdleDecode

VerifyCall ==
    /\ pc = "verify"
    /\ \E msg \in Msgs, now \in Times :
        LET out == verify_ehc(msg, certs, now) IN
        /\ v_msg' = msg
        /\ v_now' = now
        /\ v_out' = out
        /\ error' = out.raised
        /\ pc' = IF out.raised = "none" THEN "returned" ELSE "crashed"
    /\ UNCHANGED <<loadVars, batchVars, decodeVars>>

NextVerify == VerifyCall

SpecVerify == InitVerify /\ [][NextVerify]_vars

\* ------------------------------------------------------ main: the batch loop
\* the texts on the command line: one that decodes, one that does not
BatchTexts == {HC1 \o <<":", "6", "B", "F">>, <<"a", "a">>}

VerificationErrors ==
    {"MissingKeyId", "UnknownKeyId", "UnsupportedCurve", "UnsupportedKeyType"}

\* what main produced for one input: parsed (decode_ehc returned a message),
\* flat (the flat claims were printed), verify (how verify_ehc ended, or
\* "skipped" without a store, or "not_reached"), has_hc (the payload holds
\* key -260), health (the health-claims sub-document was printed)
Entry(parsed, flat, verify, has_hc, health) ==
    [parsed |-> parsed, flat |-> flat, verify |-> verify, has_hc |-> has_hc,
     health |-> health]

InitBatch ==
    /\ pc = "batch"
    /\ error = "none"
    /\ certs_none \in BOOLEAN
    /\ certs \in IF certs_none THEN {Empty} ELSE TrustStores
    /\ n_codes \in 0..MaxCodes
    /\ log = <<>>
    /\ IdleLoad
    /\ IdleVerify
    /\ IdleDecode

\* one iteration of `for ehc_code in ehc_codes` whose decode_ehc raises: in
\* b45decode, or in zlib.decompress or CoseMessage.decode
ProcessCodeDecodeError ==
    /\ pc = "batch"
    /\ Len(log) < n_codes
    /\ \E text \in BatchTexts, lib_raises \in BOOLEAN :
        LET d == decode_ehc(text) IN
        /\ d.raised # "none" \/ lib_raises
        /\ log' = Append(log, Entry(FALSE, FALSE, "not_reached", FALSE, FALSE))
        /\ Raise(IF d.raised # "none" THEN d.raised ELSE "MalformedMessage")
    /\ UNCHANGED <<loadVars, verifyVars, n_codes, decodeVars>>

\* one iteration whose decode_ehc returns msg: the flat claims, the call of
\* verify_ehc when a store is loaded, then ehc_payload[-260][1]
ProcessCode ==
    /\ pc = "batch"
    /\ Len(log) < n_codes
    /\ \E text \in BatchTexts, msg \in Msgs, now \in Times :
        LET d == decode_ehc(text)
            has_hc == msg.payload = "claims"
            out == IF certs_none THEN NoVerify ELSE verify_ehc(msg, certs, now)
            verdict == IF certs_none THEN "skipped"
                       ELSE IF out.raised # "none" THEN out.raised
                       ELSE IF out.result THEN "true" ELSE "false"
        IN
        /\ d.raised = "none"
        /\ IF out.raised # "none"
           THEN /\ log' = Append(log, Entry(TRUE, TRUE, verdict, has_hc, FALSE))
                /\ Raise(out.raised)
           ELSE IF ~has_hc
           THEN /\ log' = Append(log, Entry(TRUE, TRUE, verdict, has_hc, FALSE))
                /\ Raise("NoHealthClaims")
           ELSE /\ log' = Append(log, Entry(TRUE, TRUE, verdict, has_hc, TRUE))
                /\ UNCHANGED <<pc, error>>
    /\ UNCHANGED <<loadVars, verifyVars, n_codes, decodeVars>>

\* the list is exhausted: main returns
BatchDone ==
    /\ pc = "batch"
    /\ Len(log) = n_codes
    /\ pc' = "done"
    /\ UNCHANGED <<error, loadVars, verifyVars, batchVars, decodeVars>>

NextBatch ==
    \/ ProcessCodeDecodeError
    \/ ProcessCode
    \/ BatchDone

SpecBatch == InitBatch /\ [][NextBatch]_vars

\* ---------------------------------------------------------------- decode_ehc
Texts == SeqsUpTo(TextAlphabet, MaxTextLen)

InitDecode ==
    /\ pc = "decode"
    /\ error = "none"
    /\ certs = Empty
    /\ certs_none = TRUE
    /\ d_text \in Texts
    /\ d_out = [plain |-> NoOutcome, hc1 |-> NoOutcome, hc1colon |-> NoOutcome]
    /\ IdleLoad
    /\ IdleVerify
    /\ IdleBatch

\* decode_ehc on s, on 'HC1' + s and on 'HC1:' + s
Decode ==
    /\ pc = "decode"
    /\ d_out' = [plain    |-> decode_ehc(d_text),
                 hc1      |-> decode_ehc(HC1 \o d_text),
                 hc1colon |-> decode_ehc(HC1 \o <<":">> \o d_text)]
    /\ pc' = "decoded"
    /\ UNCHANGED <<error, loadVars, verifyVars, batchVars, d_text>>

NextDecode == Decode

SpecDecode == InitDecode /\ [][NextDecode]_vars

\* ------------------------------------------------------------ trust lists
\* every key of the store is the fingerprint prefix of the certificate it holds
WellKeyed(d) ==
    \A k \in DOMAIN d : k = SubSeq(Fingerprint(d[k]), 1, KID_LEN)

\* the sources, among stores[1..n], that define key id k
Defining(k, stores) == {i \in 1..Len(stores) : k \in DOMAIN stores[i]}

Latest(S) == CHOOSE i \in S : \A j \in S : j <= i

\* the store in which every key id holds the certificate of the last source
\* that defines it
LastSourceWins(stores) ==
    [k \in UNION {DOMAIN stores[i] : i \in 1..Len(stores)} |->
        stores[Latest(Defining(k, stores))][k]]

\* C1: every entry of every store a loader builds or returns, of the combined
\* store of download_ehc_certs and of main's certs is stored under the first
\* 8 bytes of the SHA-256 fingerprint of its certificate.
C1_KeyIdIsFingerprintPrefix ==
    /\ WellKeyed(ld_certs)
    /\ WellKeyed(dl_certs)
    /\ WellKeyed(certs)
    /\ \A i \in 1..Len(loaded) : WellKeyed(loaded[i])

\* two sources were merged and the returned store holds two entries
C1_Witness ==
    /\ pc = "loaded"
    /\ ~certs_none
    /\ Len(loaded) = 2
    /\ Cardinality(DOMAIN certs) = 2

\* C6: once a loader has met an entry whose declared key id is not its
\* certificate's fingerprint prefix (any entry of a binary list; in a signed
\* JSON list an entry of type DSC, the others being skipped before their
\* certificate is read), the run has ended with the key-id mismatch error,
\* main holds no store, and the combined store of download_ehc_certs holds
\* the merge of the earlier sources only.
C6_MismatchRejectsSource ==
    ld_bad =>
        /\ pc = "crashed"
        /\ error = "KeyIdMismatch"
        /\ certs_none
        /\ dl_certs = LastSourceWins(loaded)
        /\ mode = "download" => Len(loaded) = si - 1

\* the bad entry came after an admitted one, in the second source
C6_Witness ==
    /\ error = "KeyIdMismatch"
    /\ ld_bad
    /\ ld_certs # Empty
    /\ Len(loaded) = 1
    /\ loaded[1] # Empty

\* C7: the combined store of download_ehc_certs, and the store main receives
\* from it, maps every key id some source defines to the certificate of the
\* last source, in the caller's order, that defines it, and maps nothing else.
C7_LaterSourceWins ==
    /\ dl_certs = LastSourceWins(loaded)
    /\ (pc = "loaded" /\ mode = "download") => certs = LastSourceWins(loaded)

\* two sources define one key id with different certificates, and only the
\* first defines another
C7_Witness ==
    /\ pc = "loaded"
    /\ mode = "download"
    /\ Len(loaded) = 2
    /\ \E k \in DOMAIN loaded[1] \cap DOMAIN loaded[2] :
            loaded[1][k] # loaded[2][k] /\ certs[k] = loaded[2][k]
    /\ \E k \in DOMAIN loaded[1] \ DOMAIN loaded[2] : certs[k] = loaded[1][k]

\* C9: when a public key is supplied and the outer signature of the signed
\* JSON document was not made by it, the run has ended with the
\* signature-invalid error with no entry iterated and none admitted: the
\* loader's store is empty, main holds no store and the combined store is the
\* merge of the earlier sources.  Entries are iterated only in the other case.
C9_SignatureCheckedFirst ==
    (ld_pubkey # NoKey /\ ld_sign # ld_pubkey) =>
        /\ pc = "crashed"
        /\ error = "SignatureInvalid"
        /\ ld_n = 0
        /\ ld_certs = Empty
        /\ certs_none
        /\ dl_certs = LastSourceWins(loaded)

\* the signature of the second source fails after a first source was merged
C9_Witness ==
    /\ error = "SignatureInvalid"
    /\ ld_pubkey # NoKey
    /\ ld_sign # ld_pubkey
    /\ si = 2
    /\ dl_certs # Empty

\* ---------------------------------------------------------------- verify_ehc
\* C2: the expired flag verify_ehc computes for the resolved certificate is
\* true exactly when now is before not_valid_before or after not_valid_after.
C2_ExpiredIffOutsideWindow ==
    (pc \in {"returned", "crashed"} /\ v_out.cert # 0) =>
        (v_out.cert_expired <=>
            (v_now < NotValidBefore(v_out.cert)
                \/ v_now > NotValidAfter(v_out.cert)))

\* C3: when verify_ehc returns, it returns true exactly when the message was
\* signed by the resolved certificate's key and now lies within the
\* certificate's validity window.
C3_TrueIffValidAndInWindow ==
    pc = "returned" =>
        (v_out.result <=>
            /\ v_msg.signer = v_out.cert
            /\ NotValidBefore(v_out.cert) <= v_now
            /\ v_now <= NotValidAfter(v_out.cert))

\* C8: the key id looked up is the protected header's whenever that header
\* carries one (an empty byte string included), otherwise the unprotected
\* header's; with neither, verify_ehc ends with the missing-key-id error
\* before any lookup or signature check.
C8_ProtectedKidPreferred ==
    pc \in {"returned", "crashed"} =>
        /\ v_msg.phdr.has =>
                (v_out.looked_up /\ v_out.given_kid = v_msg.phdr.kid)
        /\ (~v_msg.phdr.has /\ v_msg.uhdr.has) =>
                (v_out.looked_up /\ v_out.given_kid = v_msg.uhdr.kid)
        /\ (~v_msg.phdr.has /\ ~v_msg.uhdr.has) =>
                /\ v_out.raised = "MissingKeyId"
                /\ ~v_out.looked_up
                /\ ~v_out.sig_checked

\* ------------------------------------------------------ main: the batch loop
\* C4: when the run has ended, every input that follows one whose
\* verification failed with MissingKeyId, UnknownKeyId, UnsupportedCurve or
\* UnsupportedKeyType has been processed too.
C4_BatchSurvivesVerificationError ==
    pc \in {"done", "crashed"} =>
        \A i \in 1..Len(log) :
            log[i].verify \in VerificationErrors => Len(log) = n_codes

\* C5: for an input whose message parsed and whose payload holds the health
\* claims, the flat claims and the health-claims sub-document are both
\* produced, whether verification returned true, returned false or failed
\* with an unknown key id.
C5_ClaimsDecodedWhateverVerification ==
    \A i \in 1..Len(log) :
        (/\ log[i].parsed
         /\ log[i].has_hc
         /\ log[i].verify \in {"true", "false", "UnknownKeyId"}) =>
            (log[i].flat /\ log[i].health)

\* ---------------------------------------------------------------- decode_ehc
\* C10: decode_ehc strips 'HC1' and one following ':' once, base-45 decodes
\* what remains and inflates exactly when the decoded bytes begin with 0x78:
\* on 'HC1:' + s its outcome is that of decoding s as it stands; for s not
\* starting with ':' the outcome on 'HC1' + s is the same; for s starting
\* with neither 'HC1' nor ':' the outcome on s is the same too.
C10_PrefixStrippedOnce ==
    pc = "decoded" =>
        /\ LET b == b45decode(d_text) IN
            d_out.hc1colon =
                IF b.ok
                THEN [raised |-> "none",
                      inflate |-> (b.data # <<>> /\ b.data[1] = 120),
                      data |-> b.data]
                ELSE [raised |-> "ValueError", inflate |-> FALSE,
                      data |-> <<>>]
        /\ ~StartsWith(d_text, <<":">>) => d_out.hc1 = d_out.hc1colon
        /\ (~StartsWith(d_text, HC1) /\ ~StartsWith(d_text, <<":">>)) =>
                d_out.plain = d_out.hc1colon

\* a text with neither prefix that decodes to bytes beginning with 0x78
C10_Witness ==
    /\ pc = "decoded"
    /\ ~StartsWith(d_text, HC1)
    /\ ~StartsWith(d_text, <<":">>)
    /\ d_out.plain.raised = "none"
    /\ d_out.plain.inflate
    /\ d_out.plain.data = <<120, 156>>
    /\ d_out.hc1 = d_out.plain
    /\ d_out.hc1colon = d_out.plain

====
